---- MODULE Spec2Model ----
(***************************************************************************)
(* The agent's handler container (agent/pulp/agent/lib/container.py):      *)
(* Descriptor.list scans the descriptor directory, Container.load resets   *)
(* the container and loads the handlers of every listed descriptor;        *)
(* find, all and errors read it.  The server's topic publish manager       *)
(* (server/pulp/server/managers/event/remote.py) is modelled beside it,    *)
(* under its own specification SpecPublish.                                *)
(*                                                                         *)
(* Strings the code splits, sorts or searches (file names, the '.conf'     *)
(* literal) are sequences of character codes; strings it only compares     *)
(* (type ids, property names, class names) are TLA+ strings.               *)
(***************************************************************************)
EXTENDS Integers, Sequences, FiniteSets, TLC

VARIABLES
    root,       \* state of the descriptor root directory on disk
    dir,        \* content of the descriptor root: file name -> file
    handlers,   \* Container.handlers: role -> (type_id -> handler)
    raised,     \* Container.raised: the exceptions of the last load
    logged,     \* what _logger was given during the running call
    pc,         \* position of the thread that runs reset() or load()
    call,       \* the operation that thread is in
    todo,       \* load(): the (name, descriptor) pairs still to be loaded
    cur,        \* __load(): the descriptor being loaded
    mod,        \* __load(): the local variable mod
    pairs,      \* __load(): the (role, type_id) pairs still to be processed
    outcome,    \* how the last call ended: "returned" and "raised" are load()'s
    loads,      \* number of load() calls made so far
    edits,      \* number of changes to the root since the last load() call
    snap,       \* the root and its content as the last Descriptor.list found them
    prevH,      \* handlers at the moment the running call was made
    prevR,      \* raised at the moment the running call was made
    order,      \* role -> the type ids of handlers[role] in the order their keys were inserted
    ret,        \* what the last find(), all() or errors() call gave its caller
    address,    \* config.get('messaging', 'url')
    broker,     \* whether the messaging server accepts connections and messages
    cls_connection,       \* TopicPublishManager._connection
    cls_logged_disabled,  \* TopicPublishManager._logged_disabled
    created,    \* the Connection objects constructed so far
    sent,       \* the messages handed to the messaging server so far
    plog,       \* what TopicPublishManager._logger was given so far
    pcalls,     \* number of publish() and connection() calls made so far
    pret,       \* how the last publish() or connection() call ended
    pure_arg,   \* the arguments of a types() or Typedef() call made on its own
    pure_res    \* what that call returned or raised, None before it

\* the container and its descriptor root
cvars == <<root, dir, handlers, raised, logged, pc, call, todo, cur, mod,
           pairs, outcome, loads, edits, snap, prevH, prevR, order>>

\* the topic publish manager and its messaging server
pubvars == <<address, broker, cls_connection, cls_logged_disabled, created,
             sent, plog, pcalls, pret>>

\* a types() or Typedef() call made on its own
purevars == <<pure_arg, pure_res>>

vars == <<cvars, ret, pubvars, purevars>>

(***************************************************************************)
(* Bounds                                                                  *)
(***************************************************************************)
\* load() calls in a behaviour
MaxLoads == 2

\* changes to the descriptor root between two load() calls
MaxEdits == 1

(***************************************************************************)
(* Roles                                                                   *)
(***************************************************************************)
SYSTEM == 0
CONTENT == 1
BIND == 2

ROLE_PROPERTY == << <<SYSTEM, "system">>, <<CONTENT, "content">>, <<BIND, "bind">> >>

ROLES == [i \in 1..Len(ROLE_PROPERTY) |-> ROLE_PROPERTY[i][1]]

RoleSet == {ROLES[i] : i \in 1..Len(ROLES)}

(***************************************************************************)
(* Python values                                                           *)
(***************************************************************************)
None == [none |-> TRUE]

EmptyDict == [k \in {} |-> None]

Put(d, k, v) == [x \in (DOMAIN d) \cup {k} |-> IF x = k THEN v ELSE d[x]]

\* dict.get(k) with the default None
Get(d, k) == IF k \in DOMAIN d THEN d[k] ELSE None

Last(s) == s[Len(s)]

Front(s) == SubSeq(s, 1, Len(s) - 1)

RECURSIVE Concat(_)
Concat(ss) == IF ss = <<>> THEN <<>> ELSE Head(ss) \o Concat(Tail(ss))

\* str < str: lexicographic on character codes
RECURSIVE StrLess(_, _)
StrLess(a, b) ==
    IF b = <<>> THEN FALSE
    ELSE IF a = <<>> THEN TRUE
    ELSE IF Head(a) # Head(b) THEN Head(a) < Head(b)
    ELSE StrLess(Tail(a), Tail(b))

\* sorted(files)
RECURSIVE sorted(_)
sorted(S) ==
    IF S = {} THEN <<>>
    ELSE LET m == CHOOSE x \in S : \A y \in S \ {x} : StrLess(x, y)
         IN <<m>> \o sorted(S \ {m})

\* x in s, for strings: s has x as a substring
IsSubstring(x, s) ==
    \E i \in 1..(Len(s) + 1) : \E j \in (i - 1)..Len(s) : SubSeq(s, i, j) = x

\* fn.split('.', 1)
split1(fn) ==
    LET dots == {i \in 1..Len(fn) : fn[i] = 46}
    IN IF dots = {} THEN <<fn>>
       ELSE LET i == CHOOSE k \in dots : \A l \in dots : k <= l
            IN <<SubSeq(fn, 1, i - 1), SubSeq(fn, i + 1, Len(fn))>>

\* the characters str.strip() removes
Whitespace == {9, 10, 11, 12, 13, 32}

\* str.strip()
strip(t) ==
    LET kept == {i \in 1..Len(t) : t[i] \notin Whitespace}
    IN IF kept = {} THEN <<>>
       ELSE LET first == CHOOSE i \in kept : \A j \in kept : i <= j
                last == CHOOSE i \in kept : \A j \in kept : i >= j
            IN SubSeq(t, first, last)

\* str.split(sep) for a one-character separator: the pieces between the
\* separators, empty pieces included
RECURSIVE split(_, _)
split(t, sep) ==
    LET seps == {i \in 1..Len(t) : t[i] = sep}
    IN IF seps = {} THEN <<t>>
       ELSE LET i == CHOOSE k \in seps : \A l \in seps : k <= l
            IN <<SubSeq(t, 1, i - 1)>> \o split(SubSeq(t, i + 1, Len(t)), sep)

\* the type ids of the files below as the characters the files hold, and
\* as the strings the container compares and uses as keys
s_rpm == <<114, 112, 109>>                     \* "rpm"
s_x == <<120>>                                 \* "x"
s_y == <<121>>                                 \* "y"

TypeId(t) ==
    CASE t = s_rpm -> "rpm"
      [] t = s_x   -> "x"
      [] t = s_y   -> "y"

(***************************************************************************)
(* The files and the handler code the model runs on.                       *)
(* A descriptor file is what Config(path) and the schema validation make   *)
(* of it: valid (it parses and validates), and for a valid one its         *)
(* sections: main.enabled, the types section (property -> its value, a     *)
(* comma-separated string) and the type sections.                          *)
(***************************************************************************)
TypeIds == {"rpm", "x", "y"}

Section(path) == [class |-> path]

NoClassSection == [k \in {} |-> <<>>]

Cfg(v, e, t, s) == [isdir |-> FALSE, valid |-> v, enabled |-> e, types |-> t, sections |-> s]

K_ok ==
    Cfg(TRUE, TRUE, [content |-> s_rpm], [rpm |-> Section(<<"m1", "H1">>)])

K_multi ==
    Cfg(TRUE, TRUE, [system |-> s_x, content |-> s_rpm \o <<44, 32, 44, 32>> \o s_x],
        [x |-> Section(<<"pkg", "m2", "H2">>), rpm |-> Section(<<"m1", "H1">>)])

K_nosect ==
    Cfg(TRUE, TRUE, [content |-> s_rpm \o <<44>> \o s_y], [rpm |-> Section(<<"m1", "H1">>)])

K_noclass ==
    Cfg(TRUE, TRUE, [content |-> s_rpm, distributor |-> s_x],
        [rpm |-> NoClassSection, x |-> Section(<<"m1", "H1">>)])

K_noimport ==
    Cfg(TRUE, TRUE, [content |-> s_x], [x |-> Section(<<"nope", "H1">>)])

K_bad ==
    Cfg(TRUE, TRUE, [bind |-> s_x], [x |-> Section(<<"pkg", "m2", "Bad">>)])

K_disabled ==
    Cfg(TRUE, FALSE, [system |-> s_x, content |-> s_rpm],
        [x |-> Section(<<"m1", "H1">>), rpm |-> Section(<<"m1", "H1">>)])

K_invalid ==
    Cfg(FALSE, TRUE, [content |-> s_rpm], [rpm |-> Section(<<"m1", "H1">>)])

DirEntry == [isdir |-> TRUE, valid |-> FALSE, enabled |-> FALSE,
             types |-> EmptyDict, sections |-> EmptyDict]

fn_a_conf == <<97, 46, 99, 111, 110, 102>>     \* "a.conf"
fn_b_co == <<98, 46, 99, 111>>                 \* "b.co"
fn_b_conf == <<98, 46, 99, 111, 110, 102>>     \* "b.conf"
fn_c_txt == <<99, 46, 116, 120, 116>>          \* "c.txt"

\* what each file of the descriptor root may hold
FileOptions(fn) ==
    CASE fn = fn_a_conf -> {K_ok, K_multi, K_noimport}
      [] fn = fn_b_co   -> {K_nosect, K_bad, K_invalid, K_disabled}
      [] fn = fn_b_conf -> {K_multi, K_noclass, DirEntry}
      [] fn = fn_c_txt  -> {K_ok}

FileNames == {fn_a_conf, fn_b_co, fn_b_conf, fn_c_txt}

\* every content of the descriptor root
Dirs ==
    UNION {{d \in [F -> UNION {FileOptions(fn) : fn \in F}] :
                \A fn \in F : d[fn] \in FileOptions(fn)} : F \in SUBSET FileNames}

\* os.path.exists of the root, os.makedirs and os.listdir succeed or fail
RootStates == {"ok", "missing", "unlistable", "uncreatable"}

\* the handler modules: a module defines classes, and the constructor of
\* a class either returns a handler or raises
Module(origin, classes, failing) ==
    [origin |-> origin, classes |-> classes, failing |-> failing]

\* Container.PATH: the directories searched for <name>.py
PATH == <<"handlers", "handlers64">>

py_b == <<98, 46, 112, 121>>                   \* "b.py"

\* the source files present in the directories of PATH
PluginFiles ==
    [handlers   |-> [f \in {py_b} |-> Module(<<"handlers", "b.py">>, {"H1", "H2", "Bad"}, {"Bad"})],
     handlers64 |-> [f \in {py_b} |-> Module(<<"handlers64", "b.py">>, {"H1"}, {})]]

\* the modules importable from the python path, by dotted name
Importable ==
    [m \in {<<"m1">>, <<"pkg", "m2">>} |->
        IF m = <<"m1">> THEN Module(m, {"H1"}, {})
        ELSE Module(m, {"H2", "Bad"}, {"Bad"})]

(***************************************************************************)
(* Descriptor                                                              *)
(***************************************************************************)
\* ext not in ('.conf'): ('.conf') is the string, so this is a substring test
ExtensionSelected(ext) == IsSubstring(ext, <<46, 99, 111, 110, 102>>)

\* Descriptor.__list after a successful os.listdir: the (name, path) pairs
\* it yields, in order.  A path stands for os.path.join(root, fn).
Descriptor__list(d) ==
    LET Selected(fn) ==
            LET part == split1(fn)
            IN /\ Len(part) >= 2
               /\ ExtensionSelected(part[2])
               /\ ~d[fn].isdir
        files == SelectSeq(sorted(DOMAIN d), Selected)
    IN [i \in 1..Len(files) |-> <<split1(files[i])[1], files[i]>>]

\* Descriptor.__init__ without the validation
Descriptor_init_novalidate(name, path, d) ==
    [raises |-> FALSE, obj |-> [name |-> name, cfg |-> d[path], path |-> path]]

\* Descriptor.__init__: Config(path) and the schema validation raise on an
\* invalid file
Descriptor_init(name, path, d) ==
    IF d[path].valid
    THEN [raises |-> FALSE, obj |-> [name |-> name, cfg |-> d[path], path |-> path]]
    ELSE [raises |-> TRUE, obj |-> None]

\* enabled() taking any value of main.enabled for true
Descriptor_enabled_always(descriptor) == TRUE

\* Descriptor.enabled
Descriptor_enabled(descriptor) == descriptor.cfg.enabled

\* the body of the for loop of Descriptor.list on one (name, path):
\* the descriptors appended and the paths logged
ListOne(name, path, d) ==
    LET r == Descriptor_init(name, path, d)
    IN IF r.raises THEN [descriptors |-> <<>>, logged |-> <<[at |-> "list", path |-> path]>>]
       ELSE IF ~Descriptor_enabled(r.obj) THEN [descriptors |-> <<>>, logged |-> <<>>]
       ELSE [descriptors |-> << <<name, r.obj>> >>, logged |-> <<>>]

\* Descriptor.__mkdir: the root after it, or that os.makedirs raised
Descriptor__mkdir(rt) ==
    IF rt = "missing" THEN [raises |-> FALSE, root |-> "ok"]
    ELSE IF rt = "uncreatable" THEN [raises |-> TRUE, root |-> rt]
    ELSE [raises |-> FALSE, root |-> rt]

\* the for loop of Descriptor.list over what __list yields
ListEach(d) ==
    LET found == Descriptor__list(d)
    IN [i \in 1..Len(found) |-> ListOne(found[i][1], found[i][2], d)]

\* os.listdir(root) raises
ListdirRaises(rt) == rt = "unlistable"

\* Descriptor.list letting the exception of an invalid descriptor out
Descriptor_list_strict(rt, d) ==
    LET mk == Descriptor__mkdir(rt)
    IN IF mk.raises \/ ListdirRaises(mk.root)
       THEN [raises |-> TRUE, root |-> mk.root, descriptors |-> <<>>, logged |-> <<>>]
       ELSE LET each == ListEach(d)
            IN [raises |-> \E i \in 1..Len(each) : each[i].logged # <<>>, root |-> mk.root,
                descriptors |-> Concat([i \in 1..Len(each) |-> each[i].descriptors]),
                logged |-> Concat([i \in 1..Len(each) |-> each[i].logged])]

\* Descriptor.list: the descriptors it returns, or that it raised
Descriptor_list(rt, d) ==
    LET mk == Descriptor__mkdir(rt)
    IN IF mk.raises \/ ListdirRaises(mk.root)
       THEN [raises |-> TRUE, root |-> mk.root, descriptors |-> <<>>, logged |-> <<>>]
       ELSE LET each == ListEach(d)
            IN [raises |-> FALSE, root |-> mk.root,
                descriptors |-> Concat([i \in 1..Len(each) |-> each[i].descriptors]),
                logged |-> Concat([i \in 1..Len(each) |-> each[i].logged])]

\* Descriptor.types that keeps the blank items
Descriptor_types_unfiltered(descriptor) ==
    LET section == descriptor.cfg.types
        present == {i \in 1..Len(ROLE_PROPERTY) : ROLE_PROPERTY[i][2] \in DOMAIN section}
    IN [role \in {ROLE_PROPERTY[i][1] : i \in present} |->
            LET i == CHOOSE k \in present : ROLE_PROPERTY[k][1] = role
                listed == section[ROLE_PROPERTY[i][2]]
                pieces == split(listed, 44)
            IN [j \in 1..Len(pieces) |-> strip(pieces[j])]]

\* Descriptor.types: role -> the type ids listed under the role's property
Descriptor_types(descriptor) ==
    LET section == descriptor.cfg.types
        present == {i \in 1..Len(ROLE_PROPERTY) : ROLE_PROPERTY[i][2] \in DOMAIN section}
    IN [role \in {ROLE_PROPERTY[i][1] : i \in present} |->
            LET i == CHOOSE k \in present : ROLE_PROPERTY[k][1] = role
                listed == section[ROLE_PROPERTY[i][2]]
                pieces == split(listed, 44)
                stripped == [j \in 1..Len(pieces) |-> strip(pieces[j])]
            IN SelectSeq(stripped, LAMBDA t : t # <<>>)]

\* provided.items() flattened by the two for loops of __load; a dict with
\* the keys 0, 1, 2 iterates in that order
RECURSIVE PairsFrom(_, _)
PairsFrom(provided, role) ==
    IF role > BIND THEN <<>>
    ELSE (IF role \in DOMAIN provided
          THEN [i \in 1..Len(provided[role]) |-> <<role, TypeId(provided[role][i])>>]
          ELSE <<>>) \o PairsFrom(provided, role + 1)

(***************************************************************************)
(* Typedef                                                                 *)
(***************************************************************************)
\* the sections of a descriptor's configuration
Sections(cfg) ==
    [s \in {"main", "types"} \cup DOMAIN cfg.sections |->
        IF s = "main" THEN [enabled |-> cfg.enabled]
        ELSE IF s = "types" THEN cfg.types
        ELSE cfg.sections[s]]

Exception(type, arg) == [type |-> type, arg |-> arg]

\* Typedef.__init__ without the validation of the section
Typedef_init_unvalidated(cfg, section) ==
    IF section \in DOMAIN Sections(cfg)
    THEN [exc |-> None, cfg |-> Sections(cfg)[section]]
    ELSE [exc |-> Exception("SectionNotFound", section), cfg |-> None]

\* Typedef.__init__: the section's configuration, or the exception raised
Typedef_init(cfg, section) ==
    IF section \in DOMAIN Sections(cfg)
    THEN IF "class" \in DOMAIN Sections(cfg)[section]
         THEN [exc |-> None, cfg |-> Sections(cfg)[section]]
         ELSE [exc |-> Exception("ValidationError", section), cfg |-> None]
    ELSE [exc |-> Exception("SectionNotFound", section), cfg |-> None]

(***************************************************************************)
(* Container                                                               *)
(***************************************************************************)
\* the dictionary reset() builds: an empty dictionary for each role
\* the keys of each role's dictionary in the order they were inserted: none
EmptyOrder == [role \in RoleSet |-> <<>>]

\* the insertion order after self.handlers[role][type_id] = handler: a new
\* key comes last, a key the dictionary has keeps its place
Inserted(o, role, type_id) ==
    IF \E i \in 1..Len(o[role]) : o[role][i] = type_id THEN o
    ELSE [o EXCEPT ![role] = Append(@, type_id)]

EmptyHandlers == [r \in RoleSet |-> EmptyDict]

\* reset() leaving self.handlers as it is
ClearedHandlers_kept(h) == h

\* reset(): the value assigned to self.handlers
ClearedHandlers(h) == EmptyHandlers

\* reset() leaving self.raised as it is
KeptRaised(r) == r

\* reset(): the value assigned to self.raised
ClearedRaised(r) == <<>>

\* Container.__find_module that returns the last directory of PATH that
\* has the file
Container__find_module_last(name) ==
    LET file_name == name \o <<46>> \o <<112, 121>>
        having == {i \in 1..Len(PATH) : file_name \in DOMAIN PluginFiles[PATH[i]]}
    IN IF having = {} THEN None
       ELSE LET i == CHOOSE k \in having : \A l \in having : k >= l
            IN <<PATH[i], file_name>>

\* Container.__find_module: the path of <name>.py in the first directory
\* of PATH that has it, or None
Container__find_module(name) ==
    LET file_name == name \o <<46>> \o <<112, 121>>
        having == {i \in 1..Len(PATH) : file_name \in DOMAIN PluginFiles[PATH[i]]}
    IN IF having = {} THEN None
       ELSE LET i == CHOOSE k \in having : \A l \in having : k <= l
            IN <<PATH[i], file_name>>

\* Container.__load_module: the module loaded from that path, or None
Container__load_module(name) ==
    LET path == Container__find_module(name)
    IN IF path # None THEN PluginFiles[path[1]][path[2]] ELSE None

\* path.rsplit('.', 1) on a dotted reference (its components)
rsplit1(path) == IF Len(path) = 1 THEN <<path>> ELSE <<Front(path), <<Last(path)>> >>

\* Container.__import_module: the module named by the reference without its
\* last component, or the ImportError of __import__
Container__import_module(path) ==
    LET name == rsplit1(path)[1]
    IN IF name \in DOMAIN Importable
       THEN [exc |-> None, mod |-> Importable[name]]
       ELSE [exc |-> Exception("ImportError", name), mod |-> None]

\* the handler a class constructs from a type's configuration; descriptor
\* and generation are kept to tell the instances apart
Handler(m, cls, cfg, descriptor, gen) ==
    [cls |-> cls, module |-> m.origin, cfg |-> cfg, path |-> descriptor.path, gen |-> gen]

\* what __find_module logs for a descriptor: the source file that
\* __load_module then loads, if there is one
UsingModule(name, descriptor) ==
    LET path == Container__find_module(name)
    IN IF path = None THEN <<>>
       ELSE <<[at |-> "module", name |-> name, path |-> descriptor.path, source |-> path]>>

\* mod as the body of the inner loop of __load leaves it
ResolveModule(m, path) ==
    IF m = None THEN Container__import_module(path) ELSE [exc |-> None, mod |-> m]

\* one pass of the inner loop of __load, for (role, type_id): the handler
\* to register and the value of mod, or the exception raised
LoadPair(descriptor, m, type_id, gen) ==
    LET typedef == Typedef_init(descriptor.cfg, type_id)
    IN IF typedef.exc # None THEN [exc |-> typedef.exc, mod |-> m, handler |-> None]
       ELSE
       LET path == typedef.cfg.class
           res == ResolveModule(m, path)
           cls == Last(path)
       IN IF res.exc # None THEN [exc |-> res.exc, mod |-> m, handler |-> None]
          ELSE IF cls \notin res.mod.classes
          THEN [exc |-> Exception("AttributeError", cls), mod |-> res.mod, handler |-> None]
          ELSE IF cls \in res.mod.failing
          THEN [exc |-> Exception("ConstructionError", cls), mod |-> res.mod, handler |-> None]
          ELSE [exc |-> None, mod |-> res.mod,
                handler |-> Handler(res.mod, cls, typedef.cfg, descriptor, gen)]

\* Register with the role's dictionary rebuilt instead of updated
Register_rebuild(h, role, type_id, handler) ==
    [h EXCEPT ![role] = Put(EmptyDict, type_id, handler)]

\* Register keeping the handler a pair already has
Register_keep(h, role, type_id, handler) ==
    IF type_id \in DOMAIN h[role] THEN h ELSE [h EXCEPT ![role] = Put(h[role], type_id, handler)]

\* self.handlers[role][type_id] = handler
Register(h, role, type_id, handler) ==
    [h EXCEPT ![role] = Put(h[role], type_id, handler)]

\* the except clause only logging
RecordError_drop(r, e, name) == r

\* the except clause appending the (name, exception) pair
RecordError_tagged(r, e, name) == Append(r, [name |-> name, failure |-> e])

\* the except clause of __load appending the exception twice
RecordError_twice(r, e, name) == Append(Append(r, e), e)

\* the except clause of __load: self.raised.append(e)
RecordError(r, e, name) == Append(r, e)

\* a role value that is none of SYSTEM, CONTENT and BIND
NoRole == 7

\* Container.find with subscripts: self.handlers[role][type_id]
find_subscript(type_id, role) ==
    IF role \notin DOMAIN handlers THEN [exc |-> Exception("KeyError", role), value |-> None]
    ELSE IF type_id \notin DOMAIN handlers[role]
         THEN [exc |-> Exception("KeyError", type_id), value |-> None]
         ELSE [exc |-> None, value |-> handlers[role][type_id]]

\* Container.find that hands out a new handler object at every call
find_rebuilt(type_id, role) ==
    LET d == IF role \in DOMAIN handlers THEN handlers[role] ELSE EmptyDict
    IN [exc |-> None,
        value |-> IF type_id \in DOMAIN d THEN [d[type_id] EXCEPT !.gen = @ + 1] ELSE None]

\* Container.find: what the call raises (nothing) and what it returns
find(type_id, role) ==
    LET d == IF role \in DOMAIN handlers THEN handlers[role] ELSE EmptyDict
    IN [exc |-> None, value |-> Get(d, type_id)]

\* the orders in which a Python 2 dictionary may yield its items: the
\* language fixes none
Items(d) ==
    LET n == Cardinality(DOMAIN d)
        orders == {o \in [1..n -> DOMAIN d] : \A i, j \in 1..n : o[i] = o[j] => i = j}
    IN {[i \in 1..n |-> <<o[i], d[o[i]]>>] : o \in orders}

\* Container.all from the given role on: the lists it may build, or the
\* KeyError of self.handlers[role]
RECURSIVE AllFrom(_, _)
AllFrom(roles, acc) ==
    IF roles = <<>> THEN {[exc |-> None, value |-> acc]}
    ELSE IF Head(roles) \notin DOMAIN handlers
         THEN {[exc |-> Exception("KeyError", Head(roles)), value |-> None]}
         ELSE UNION {AllFrom(Tail(roles), acc \o items) : items \in Items(handlers[Head(roles)])}

\* Container.all that takes no roles to mean CONTENT
all_content(roles) == AllFrom(IF roles # <<>> THEN roles ELSE <<CONTENT>>, <<>>)

\* Container.all: for role in (roles or ROLES)
all(roles) == AllFrom(IF roles # <<>> THEN roles ELSE ROLES, <<>>)

\* a Python list of exceptions as a returned value
PyList(s) == [list |-> s]

\* a Python list of (type_id, handler) items as a returned value
ItemList(s) == [items |-> s]

\* Container.errors
errors == raised

(***************************************************************************)
(* The thread running reset() or load(), one shared write per step, and    *)
(* the environment changing the descriptor root between two calls.         *)
(***************************************************************************)
locals == <<todo, cur, mod, pairs>>

\* Container.__init__: the container as constructed, over any descriptor root
ContainerInit ==
    /\ root \in RootStates
    /\ dir \in Dirs
    /\ root # "ok" => dir = EmptyDict
    /\ handlers = EmptyHandlers
    /\ raised = <<>>
    /\ logged = <<>>
    /\ pc = "idle"
    /\ call = "none"
    /\ todo = <<>>
    /\ cur = None
    /\ mod = None
    /\ pairs = <<>>
    /\ outcome = "none"
    /\ loads = 0
    /\ edits = 0
    /\ snap = [root |-> "ok", dir |-> EmptyDict]
    /\ prevH = EmptyHandlers
    /\ prevR = <<>>
    /\ order = EmptyOrder
    /\ ret = None

\* the class attributes of TopicPublishManager as the class statement leaves
\* them, and nothing logged, sent or called yet
ManagerInit ==
    /\ cls_connection = None
    /\ cls_logged_disabled = FALSE
    /\ created = <<>>
    /\ sent = <<>>
    /\ plog = <<>>
    /\ pcalls = 0
    /\ pret = None

Init ==
    /\ ContainerInit
    /\ ManagerInit
    /\ address = ""
    /\ broker = "down"
    /\ pure_arg = None
    /\ pure_res = None

\* the environment acts while no call is running and a load() is to come
Quiet == pc = "idle" /\ loads < MaxLoads /\ edits < MaxEdits

EnvUnchanged ==
    /\ edits' = edits + 1
    /\ UNCHANGED <<handlers, raised, logged, pc, call, locals, outcome, loads, snap, prevH, prevR>>
    /\ UNCHANGED <<order, ret, pubvars, purevars>>

\* a descriptor file is written
WriteFile ==
    /\ Quiet
    /\ root = "ok"
    /\ \E fn \in FileNames : \E c \in FileOptions(fn) :
          /\ Get(dir, fn) # c
          /\ dir' = Put(dir, fn, c)
    /\ root' = root
    /\ EnvUnchanged

\* a descriptor file is removed
RemoveFile ==
    /\ Quiet
    /\ \E fn \in DOMAIN dir : dir' = [x \in (DOMAIN dir) \ {fn} |-> dir[x]]
    /\ root' = root
    /\ EnvUnchanged

\* the root is removed with what it holds, made inaccessible (what it
\* holds is out of reach), or made an accessible empty directory again
ChangeRoot ==
    /\ Quiet
    /\ root' \in RootStates \ {root}
    /\ dir' = EmptyDict
    /\ EnvUnchanged

\* reset() is called
ResetCall ==
    /\ pc = "idle"
    /\ pc' = "reset_handlers"
    /\ call' = "reset"
    /\ outcome' = "running"
    /\ prevH' = handlers
    /\ prevR' = raised
    /\ logged' = <<>>
    /\ ret' = None
    /\ UNCHANGED <<root, dir, handlers, raised, locals, loads, edits, snap, order, pubvars, purevars>>

\* load() is called
LoadCall ==
    /\ pc = "idle"
    /\ loads < MaxLoads
    /\ pc' = "reset_handlers"
    /\ call' = "load"
    /\ loads' = loads + 1
    /\ outcome' = "running"
    /\ prevH' = handlers
    /\ prevR' = raised
    /\ logged' = <<>>
    /\ edits' = 0
    /\ ret' = None
    /\ UNCHANGED <<root, dir, handlers, raised, locals, snap, order, pubvars, purevars>>

\* reset(): self.handlers = d
ResetHandlers ==
    /\ pc = "reset_handlers"
    /\ handlers' = ClearedHandlers(handlers)
    /\ order' = EmptyOrder
    /\ pc' = "reset_raised"
    /\ UNCHANGED <<root, dir, raised, logged, call, locals, outcome, loads, edits, snap, prevH, prevR>>
    /\ UNCHANGED <<ret, pubvars, purevars>>

\* reset(): self.raised = [], and the return to load() or to the caller
ResetRaised ==
    /\ pc = "reset_raised"
    /\ raised' = ClearedRaised(raised)
    /\ IF call = "load"
       THEN /\ pc' = "list"
            /\ UNCHANGED <<call, outcome, prevH, prevR, ret>>
       ELSE /\ pc' = "idle"
            /\ call' = "none"
            /\ outcome' = "reset"
            /\ prevH' = EmptyHandlers
            /\ prevR' = <<>>
            /\ ret' = None
    /\ UNCHANGED <<root, dir, handlers, logged, locals, loads, edits, snap, order, pubvars, purevars>>

\* the return of a call: back to idle
Return(how) ==
    /\ pc' = "idle"
    /\ call' = "none"
    /\ outcome' = how
    /\ prevH' = EmptyHandlers
    /\ prevR' = <<>>
    /\ todo' = <<>>
    /\ cur' = None
    /\ mod' = None
    /\ pairs' = <<>>
    /\ edits' = edits
    /\ ret' = None

\* load(): Descriptor.list(self.root); what it raises leaves load()
List ==
    /\ pc = "list"
    /\ LET r == Descriptor_list(root, dir)
       IN /\ root' = r.root
          /\ snap' = [root |-> root, dir |-> dir]
          /\ logged' = logged \o r.logged
          /\ IF r.raises
             THEN Return("raised")
             ELSE /\ todo' = r.descriptors
                  /\ pc' = "next"
                  /\ UNCHANGED <<call, cur, mod, pairs, edits, outcome, prevH, prevR, ret>>
    /\ UNCHANGED <<dir, handlers, raised, loads, order, pubvars, purevars>>

\* load(): the for loop is over
LoadReturn ==
    /\ pc = "next"
    /\ todo = <<>>
    /\ Return("returned")
    /\ UNCHANGED <<root, dir, handlers, raised, logged, loads, snap, order, pubvars, purevars>>

\* __load up to its loops: mod = self.__load_module(name); descriptor.types()
LoadBegin ==
    /\ pc = "next"
    /\ todo # <<>>
    /\ LET name == Head(todo)[1]
           descriptor == Head(todo)[2]
           provided == Descriptor_types(descriptor)
       IN /\ cur' = descriptor
          /\ mod' = Container__load_module(name)
          /\ pairs' = PairsFrom(provided, SYSTEM)
          /\ pc' = IF PairsFrom(provided, SYSTEM) = <<>> THEN "next" ELSE "pair"
          /\ logged' = logged \o UsingModule(name, descriptor)
    /\ todo' = Tail(todo)
    /\ UNCHANGED <<root, dir, handlers, raised, call, outcome, loads, edits, snap, prevH, prevR>>
    /\ UNCHANGED <<order, ret, pubvars, purevars>>

\* __load: one pass of the inner loop; an exception ends __load in its
\* except clause
LoadStep ==
    /\ pc = "pair"
    /\ LET role == Head(pairs)[1]
           type_id == Head(pairs)[2]
           r == LoadPair(cur, mod, type_id, loads)
       IN IF r.exc # None
          THEN /\ raised' = RecordError(raised, r.exc, cur.name)
               /\ logged' = Append(logged, [at |-> "load", name |-> cur.name, path |-> cur.path])
               /\ pairs' = <<>>
               /\ pc' = "next"
               /\ UNCHANGED <<handlers, mod, order>>
          ELSE /\ handlers' = Register(handlers, role, type_id, r.handler)
               /\ order' = Inserted(order, role, type_id)
               /\ mod' = r.mod
               /\ pairs' = Tail(pairs)
               /\ pc' = IF Tail(pairs) = <<>> THEN "next" ELSE "pair"
               /\ UNCHANGED <<raised, logged>>
    /\ UNCHANGED <<root, dir, call, todo, cur, outcome, loads, edits, snap, prevH, prevR>>
    /\ UNCHANGED <<ret, pubvars, purevars>>

\* the arguments find() is called with
FindRoles == RoleSet \cup {NoRole}

\* the arguments all() is called with
AllRoles == {<<>>, <<SYSTEM>>, <<CONTENT>>, <<BIND>>, <<NoRole>>}

\* a find() call by any thread, at any moment
Find ==
    /\ \E type_id \in TypeIds : \E role \in FindRoles :
          LET r == find(type_id, role)
          IN ret' = [op |-> "find", args |-> <<type_id, role>>, exc |-> r.exc, value |-> r.value]
    /\ UNCHANGED <<cvars, pubvars, purevars>>

\* an all() call by any thread, at any moment
All ==
    /\ \E roles \in AllRoles : \E r \in all(roles) :
          ret' = [op |-> "all", args |-> roles, exc |-> r.exc,
                  value |-> IF r.exc = None THEN ItemList(r.value) ELSE None]
    /\ UNCHANGED <<cvars, pubvars, purevars>>

\* an errors() call by any thread, at any moment
Errors ==
    /\ ret' = [op |-> "errors", args |-> <<>>, exc |-> None, value |-> PyList(errors)]
    /\ UNCHANGED <<cvars, pubvars, purevars>>

Next ==
    \/ WriteFile
    \/ RemoveFile
    \/ ChangeRoot
    \/ ResetCall
    \/ LoadCall
    \/ ResetHandlers
    \/ ResetRaised
    \/ List
    \/ LoadReturn
    \/ LoadBegin
    \/ LoadStep

Spec == Init /\ [][Next]_vars

\* the container over a descriptor root nobody changes, with threads reading
\* it at any moment
NextRead ==
    \/ ResetCall
    \/ LoadCall
    \/ ResetHandlers
    \/ ResetRaised
    \/ List
    \/ LoadReturn
    \/ LoadBegin
    \/ LoadStep
    \/ Find
    \/ All
    \/ Errors

\* the descriptor roots the readers' container is loaded from
ReadDirs == {d \in Dirs : DOMAIN d \subseteq {fn_a_conf, fn_b_conf}}

InitRead == Init /\ dir \in ReadDirs

SpecRead == InitRead /\ [][NextRead]_vars

(***************************************************************************)
(* The topic publish manager (server/pulp/server/managers/event/remote.py) *)
(* and the messaging server it talks to.  The manager's class attributes   *)
(* and what it logged and sent are one record m; a Connection object is    *)
(* an entry of m.created, and a reference to it is the entry's position.   *)
(***************************************************************************)
\* publish() and connection() calls in a behaviour
MaxCalls == 3

\* the values of config.get('messaging', 'url'): unset, or a server address
Addresses == {"", "tcp://broker:5672"}

\* the messaging server accepts connections and messages ("up"), accepts
\* connections and refuses the message ("rejecting"), or is out of reach
BrokerStates == {"up", "rejecting", "down"}

\* TopicPublishManager.EXCHANGE
EXCHANGE == "amq.topic"

BASE_SUBJECT == "pulp.server"

\* the events published, by event_type, and the exchange arguments
EventTypes == {"repo.sync.finish", "repo.publish.finish"}

Exchanges == {None, [name |-> "custom"]}

\* qpid.messaging.exceptions: the classes an exception class derives from
Bases(cls) ==
    CASE cls = "ConnectError"    -> {"ConnectError", "ConnectionError", "MessagingError"}
      [] cls = "ConnectionError" -> {"ConnectionError", "MessagingError"}
      [] cls = "SendError"       -> {"SendError", "MessagingError"}
      [] OTHER                   -> {cls}

\* an except clause for the class catches the exception
Catches(cls, exc) == cls \in Bases(exc.type)

\* a reference to the Connection object m.created[id]
Ref(id) == [ref |-> id]

\* the manager as one value
Manager ==
    [connection |-> cls_connection, logged_disabled |-> cls_logged_disabled,
     created |-> created, sent |-> sent, plog |-> plog]

\* _disabled_message that logs at every call
TopicPublishManager_disabled_message_always(m) ==
    [m EXCEPT !.plog = Append(@, "disabled"), !.logged_disabled = TRUE]

\* TopicPublishManager._disabled_message
TopicPublishManager_disabled_message(m) ==
    IF ~m.logged_disabled
    THEN [m EXCEPT !.plog = Append(@, "disabled"), !.logged_disabled = TRUE]
    ELSE m

\* Connection(address, reconnect=True)
Connection(addr) == [address |-> addr, reconnect |-> TRUE, opened |-> FALSE]

\* Connection.open(): the server out of reach, it raises a ConnectionError
Connection_open(m, id, b) ==
    IF b = "down"
    THEN [m |-> m, exc |-> Exception("ConnectError", m.created[id].address)]
    ELSE [m |-> [m EXCEPT !.created[id].opened = TRUE], exc |-> None]

\* the body of connection() once it finds no connection and an address
Connect(m, addr, b, caught) ==
    LET id == Len(m.created) + 1
        made == [m EXCEPT !.created = Append(@, Connection(addr)), !.connection = Ref(id)]
        opened == Connection_open(made, id, b)
    IN IF opened.exc = None THEN [m |-> opened.m, exc |-> None, value |-> Ref(id)]
       ELSE IF Catches(caught, opened.exc)
            THEN [m |-> [opened.m EXCEPT !.plog = Append(@, "could not connect")],
                  exc |-> None, value |-> None]
            ELSE [m |-> opened.m, exc |-> opened.exc, value |-> None]

\* connection() without the except clause around open()
TopicPublishManager_connection_uncaught(m, addr, b) ==
    IF m.connection = None
    THEN IF addr = ""
         THEN [m |-> TopicPublishManager_disabled_message(m), exc |-> None, value |-> None]
         ELSE Connect(m, addr, b, "nothing")
    ELSE [m |-> m, exc |-> None, value |-> m.connection]

\* connection() that makes a new Connection when the one it has is not open
TopicPublishManager_connection_renewed(m, addr, b) ==
    IF m.connection = None \/ ~m.created[m.connection.ref].opened
    THEN IF addr = ""
         THEN [m |-> TopicPublishManager_disabled_message(m), exc |-> None, value |-> None]
         ELSE Connect(m, addr, b, "ConnectionError")
    ELSE [m |-> m, exc |-> None, value |-> m.connection]

\* TopicPublishManager.connection: the manager after the call, what the
\* call raises and what it returns
TopicPublishManager_connection(m, addr, b) ==
    IF m.connection = None
    THEN IF addr = ""
         THEN [m |-> TopicPublishManager_disabled_message(m), exc |-> None, value |-> None]
         ELSE Connect(m, addr, b, "ConnectionError")
    ELSE [m |-> m, exc |-> None, value |-> m.connection]

\* connection.session().sender(destination).send(data): a connection that
\* never opened or a server out of reach raises a ConnectionError, a server
\* that refuses the message a SendError
Send(m, conn, destination, data, b) ==
    IF conn = None THEN [m |-> m, exc |-> Exception("AttributeError", "session")]
    ELSE IF ~m.created[conn.ref].opened \/ b = "down"
         THEN [m |-> m, exc |-> Exception("ConnectionError", destination.exchange)]
         ELSE IF b = "rejecting"
              THEN [m |-> m, exc |-> Exception("SendError", destination.exchange)]
              ELSE [m |-> [m EXCEPT !.sent = Append(@, [via |-> conn, destination |-> destination,
                                                        data |-> data])],
                    exc |-> None]

\* the destination publish() builds: exchange or cls.EXCHANGE, and the subject
Destination(event_type, exchange) ==
    [exchange |-> IF exchange = None THEN EXCHANGE ELSE exchange.name,
     subject |-> <<BASE_SUBJECT, event_type>>]

\* TopicPublishManager.publish
TopicPublishManager_publish(m, addr, b, event_type, exchange) ==
    LET first == TopicPublishManager_connection(m, addr, b)
    IN IF first.exc # None THEN [m |-> first.m, exc |-> first.exc]
       ELSE IF first.value = None THEN [m |-> first.m, exc |-> None]
       ELSE LET destination == Destination(event_type, exchange)
                data == [json |-> event_type]
                second == TopicPublishManager_connection(first.m, addr, b)
                r == IF second.exc # None THEN [m |-> second.m, exc |-> second.exc]
                     ELSE Send(second.m, second.value, destination, data, b)
            IN IF r.exc # None /\ Catches("MessagingError", r.exc)
               THEN [m |-> [r.m EXCEPT !.plog = Append(@, "could not publish")], exc |-> None]
               ELSE r

\* the manager's variables take the values of the record m
Becomes(m) ==
    /\ cls_connection' = m.connection
    /\ cls_logged_disabled' = m.logged_disabled
    /\ created' = m.created
    /\ sent' = m.sent
    /\ plog' = m.plog

\* a publish() call
Publish ==
    /\ pcalls < MaxCalls
    /\ \E event_type \in EventTypes : \E exchange \in Exchanges :
          LET r == TopicPublishManager_publish(Manager, address, broker, event_type, exchange)
          IN /\ Becomes(r.m)
             /\ pret' = [op |-> "publish", exc |-> r.exc, value |-> None,
                         logs |-> Len(r.m.plog) - Len(plog),
                         sends |-> Len(r.m.sent) - Len(sent)]
    /\ pcalls' = pcalls + 1
    /\ UNCHANGED <<cvars, ret, purevars, address, broker>>

\* a connection() call
ConnectionCall ==
    /\ pcalls < MaxCalls
    /\ LET r == TopicPublishManager_connection(Manager, address, broker)
       IN /\ Becomes(r.m)
          /\ pret' = [op |-> "connection", exc |-> r.exc, value |-> r.value,
                      logs |-> Len(r.m.plog) - Len(plog),
                      sends |-> Len(r.m.sent) - Len(sent)]
    /\ pcalls' = pcalls + 1
    /\ UNCHANGED <<cvars, ret, purevars, address, broker>>

\* the messaging server goes down, comes back, or starts refusing messages
BrokerChange ==
    /\ broker' \in BrokerStates \ {broker}
    /\ UNCHANGED <<cvars, ret, purevars, address, cls_connection, cls_logged_disabled, created,
                   sent, plog, pcalls, pret>>

NextPublish ==
    \/ Publish
    \/ ConnectionCall
    \/ BrokerChange

\* the manager after the class statement, with any configuration and any
\* state of the messaging server; the container is constructed and idle
InitPublish ==
    /\ ContainerInit
    /\ root = "ok"
    /\ dir = EmptyDict
    /\ ManagerInit
    /\ address \in Addresses
    /\ broker \in BrokerStates
    /\ pure_arg = None
    /\ pure_res = None

SpecPublish == InitPublish /\ [][NextPublish]_vars

(***************************************************************************)
(* Descriptor.types and Typedef.__init__ called on their own, over any     *)
(* types section and any section name.                                     *)
(***************************************************************************)
\* length of the value of a property of the types section
MaxLen == 3

\* the characters of such a value: tab, space, comma, x and y
Alphabet == {9, 32, 44, 120, 121}

Strings == UNION {[1..k -> Alphabet] : k \in 0..MaxLen}

\* the types sections: any of the properties present, content with any
\* value and the others with one of two
TypesSections ==
    UNION {{[p \in P |-> IF p = "content" THEN c ELSE o] :
                c \in Strings, o \in {s_x, <<32, 121, 44, 120>>}} :
           P \in SUBSET {"system", "content", "bind", "distributor"}}

\* the descriptor configurations and section names Typedef is given
TypedefCfgs == {K_ok, K_multi, K_nosect, K_noclass, K_noimport, K_bad, K_disabled}

SectionNames == TypeIds \cup {"main", "types", "z"}

Inputs ==
    {[op |-> "types", section |-> t] : t \in TypesSections}
        \cup {[op |-> "typedef", cfg |-> c, section |-> n] : c \in TypedefCfgs, n \in SectionNames}

\* descriptor.types() on a descriptor with the given types section
TypesCall ==
    /\ pure_arg.op = "types"
    /\ pure_res = None
    /\ pure_res' = [provided |-> Descriptor_types([cfg |-> [types |-> pure_arg.section]])]
    /\ UNCHANGED <<cvars, ret, pubvars, pure_arg>>

\* Typedef(cfg, section)
TypedefCall ==
    /\ pure_arg.op = "typedef"
    /\ pure_res = None
    /\ pure_res' = Typedef_init(pure_arg.cfg, pure_arg.section)
    /\ UNCHANGED <<cvars, ret, pubvars, pure_arg>>

NextPure ==
    \/ TypesCall
    \/ TypedefCall

InitPure ==
    /\ ContainerInit
    /\ root = "ok"
    /\ dir = EmptyDict
    /\ ManagerInit
    /\ address = ""
    /\ broker = "down"
    /\ pure_arg \in Inputs
    /\ pure_res = None

SpecPure == InitPure /\ [][NextPure]_vars

(***************************************************************************)
(* load() and __load as functions of their inputs: what a call that runs   *)
(* alone computes.                                                         *)
(***************************************************************************)
\* the two for loops of __load from the given pair on
RECURSIVE LoadPairs(_, _, _, _, _)
LoadPairs(h, descriptor, m, ps, gen) ==
    IF ps = <<>> THEN [handlers |-> h, exc |-> None]
    ELSE LET r == LoadPair(descriptor, m, Head(ps)[2], gen)
         IN IF r.exc # None THEN [handlers |-> h, exc |-> r.exc]
            ELSE LoadPairs(Register(h, Head(ps)[1], Head(ps)[2], r.handler),
                           descriptor, r.mod, Tail(ps), gen)

\* Container.__load
Container__load(h, r, name, descriptor, gen) ==
    LET res == LoadPairs(h, descriptor, Container__load_module(name),
                         PairsFrom(Descriptor_types(descriptor), SYSTEM), gen)
    IN [handlers |-> res.handlers,
        raised |-> IF res.exc # None THEN RecordError(r, res.exc, name) ELSE r]

\* the for loop of load()
RECURSIVE LoadEach(_, _, _, _)
LoadEach(h, r, ds, gen) ==
    IF ds = <<>> THEN [handlers |-> h, raised |-> r]
    ELSE LET res == Container__load(h, r, Head(ds)[1], Head(ds)[2], gen)
         IN LoadEach(res.handlers, res.raised, Tail(ds), gen)

\* Container.load
Container_load(rt, d, gen) ==
    LET ls == Descriptor_list(rt, d)
    IN IF ls.raises
       THEN [raises |-> TRUE, handlers |-> ClearedHandlers(EmptyHandlers), raised |-> ClearedRaised(<<>>)]
       ELSE [raises |-> FALSE] @@ LoadEach(ClearedHandlers(EmptyHandlers), ClearedRaised(<<>>), ls.descriptors, gen)

(***************************************************************************)
(* Vocabulary of the properties                                            *)
(***************************************************************************)
\* load() has run its loop to the end, or has returned
LoadEnd == call = "load" /\ pc = "next" /\ todo = <<>>

AfterLoad == pc = "idle" /\ outcome = "returned"

Loaded == LoadEnd \/ AfterLoad

\* the files of a directory that are descriptor files
DescriptorFiles(d) == {fn \in DOMAIN d : fn \in {fn_a_conf, fn_b_co, fn_b_conf} /\ ~d[fn].isdir}

\* the descriptors load() has to load: valid and enabled
Loadable(d) == {fn \in DescriptorFiles(d) : d[fn].valid /\ d[fn].enabled}

\* the characters i..j of the value lie between two commas (or the ends
\* of the value) and hold no comma
IsPiece(listed, i, j) ==
    /\ i = 1 \/ listed[i - 1] = 44
    /\ j = Len(listed) \/ listed[j + 1] = 44
    /\ \A k \in i..j : listed[k] # 44

\* the characters a..b of the value are an item: what is left of a piece
\* once the whitespace around it is taken off, and not empty
IsItem(listed, a, b) ==
    /\ a <= b
    /\ listed[a] \notin Whitespace
    /\ listed[b] \notin Whitespace
    /\ \E i \in 1..a : \E j \in b..Len(listed) :
          /\ IsPiece(listed, i, j)
          /\ \A k \in (i..(a - 1)) \cup ((b + 1)..j) : listed[k] \in Whitespace

\* the comma-separated value lists the type id
Lists(listed, type_id) ==
    \E a, b \in 1..Len(listed) : IsItem(listed, a, b) /\ TypeId(SubSeq(listed, a, b)) = type_id

\* the (role, type_id) pairs a descriptor file declares
Declared(c) ==
    {p \in RoleSet \X TypeIds :
        \E i \in 1..Len(ROLE_PROPERTY) :
            /\ ROLE_PROPERTY[i][1] = p[1]
            /\ ROLE_PROPERTY[i][2] \in DOMAIN c.types
            /\ Lists(c.types[ROLE_PROPERTY[i][2]], p[2])}

\* the descriptors whose __load ended in its except clause during this call
FailedPaths == {logged[i].path : i \in {j \in 1..Len(logged) : logged[j].at = "load"}}

Registered(role, type_id) == type_id \in DOMAIN handlers[role]

\* file name a sorts before b, or is b
SortsUpTo(a, b) == a = b \/ StrLess(a, b)

(***************************************************************************)
(* C1: failure isolation.  After load(), every (role, type_id) declared by *)
(* a loaded descriptor whose __load did not fail is registered, by that    *)
(* descriptor or by one sorting after it, whatever descriptors before or   *)
(* after it failed; and the step in which a descriptor fails leaves the    *)
(* handler table as it was.                                                *)
(***************************************************************************)
C1_NonFailingRegistered ==
    Loaded =>
        \A fn \in Loadable(snap.dir) \ FailedPaths :
            \A p \in Declared(snap.dir[fn]) :
                /\ Registered(p[1], p[2])
                /\ SortsUpTo(fn, handlers[p[1]][p[2]].path)

C1_FailureLeavesTable ==
    (pc = "pair" /\ raised' # raised) => handlers' = handlers

DescriptorOf(d, fn) == Descriptor_init(split1(fn)[1], fn, d).obj

\* __load of that descriptor on an empty table
LoadedAlone(d, fn) ==
    LoadPairs(EmptyHandlers, DescriptorOf(d, fn), Container__load_module(split1(fn)[1]),
              PairsFrom(Descriptor_types(DescriptorOf(d, fn)), SYSTEM), 0)

\* the loadable descriptors whose __load raises, in file name order
Failing(d) == SelectSeq(sorted(Loadable(d)), LAMBDA fn : LoadedAlone(d, fn).exc # None)

\* the pairs a loadable descriptor registers before it ends or fails
RegisteredBy(d, fn) == {p \in RoleSet \X TypeIds : p[2] \in DOMAIN LoadedAlone(d, fn).handlers[p[1]]}

\* the last of a non-empty set of file names in sort order
LastOf(S) == Last(sorted(S))

\* the value of the load() call that is running, were no reader to see it
\* before its end
NextGeneration ==
    IF pc \in {"reset_handlers", "reset_raised", "list"}
    THEN Container_load(root, dir, loads)
    ELSE Container_load(snap.root, snap.dir, loads)

(***************************************************************************)
(* C2: a reader calling find/all/errors while load() runs sees the handler *)
(* table and the error log of the previous generation or those of the next *)
(* one, never an emptied or partly populated registry.                     *)
(***************************************************************************)
C2_ReaderSeesWholeGeneration ==
    call = "load" =>
        /\ handlers \in {prevH, NextGeneration.handlers}
        /\ errors \in {prevR, NextGeneration.raised}

(***************************************************************************)
(* C3 as stated: after load(), the length of errors() is the number of     *)
(* descriptors that failed, those whose own configuration is invalid       *)
(* included.                                                               *)
(***************************************************************************)
C3_ErrorsCountEveryFailure ==
    Loaded =>
        Len(errors) = Cardinality({fn \in DescriptorFiles(snap.dir) : ~snap.dir[fn].valid}
                                  \cup FailedPaths)

(***************************************************************************)
(* C3 amended: after load(), the length of errors() is the number of valid *)
(* and enabled descriptors whose handler loading failed; a descriptor      *)
(* whose own configuration is invalid is logged and skipped by             *)
(* Descriptor.list and adds no entry.                                      *)
(***************************************************************************)
C3_ErrorsCountLoadFailures ==
    Loaded => Len(errors) = Len(Failing(snap.dir))

\* an invalid descriptor next to one whose handler loading failed
C3_Witness ==
    /\ AfterLoad
    /\ \E fn \in DescriptorFiles(snap.dir) : ~snap.dir[fn].valid
    /\ Len(Failing(snap.dir)) >= 1
    /\ Len(errors) >= 1

(***************************************************************************)
(* C4 as stated: every entry of the error log carries the name of the      *)
(* descriptor whose processing failed.                                     *)
(***************************************************************************)
C4_EntriesNameDescriptor ==
    Loaded =>
        \A i \in 1..Len(errors) :
            /\ "name" \in DOMAIN errors[i]
            /\ \E fn \in FailedPaths : errors[i].name = split1(fn)[1]

(***************************************************************************)
(* C4 amended: every entry load() appends to the error log is the bare     *)
(* exception raised while loading one descriptor, in descriptor order and  *)
(* with no descriptor name in it; the name goes to the logger only.  After *)
(* loading a single failing descriptor c, errors() has exactly one entry,  *)
(* the exception c raised, and the logger was given c.                     *)
(***************************************************************************)
C4_EntriesAreBareExceptions ==
    Loaded =>
        LET failing == Failing(snap.dir)
            names == SelectSeq(logged, LAMBDA l : l.at = "load")
        IN /\ Len(errors) = Len(failing)
           /\ Len(names) = Len(failing)
           /\ \A i \in 1..Len(failing) :
                 /\ errors[i] = LoadedAlone(snap.dir, failing[i]).exc
                 /\ DOMAIN errors[i] = {"type", "arg"}
                 /\ names[i].name = split1(failing[i])[1]

\* a single descriptor, which failed
C4_Witness ==
    /\ AfterLoad
    /\ Cardinality(DOMAIN snap.dir) = 1
    /\ Len(Failing(snap.dir)) = 1
    /\ Len(errors) = 1

(***************************************************************************)
(* C5: a disabled descriptor contributes nothing: no handler of the table  *)
(* comes from it, under any role, and it adds no entry to the error log.   *)
(***************************************************************************)
Disabled(d) == {fn \in DescriptorFiles(d) : d[fn].valid /\ ~d[fn].enabled}

C5_DisabledContributeNothing ==
    /\ \A fn \in Disabled(snap.dir) :
          /\ \A r \in RoleSet : \A t \in DOMAIN handlers[r] : handlers[r][t].path # fn
          /\ fn \notin FailedPaths
    /\ Loaded => Len(errors) <= Cardinality(Loadable(snap.dir))

\* a disabled descriptor that declares types, next to a loaded one
C5_Witness ==
    /\ AfterLoad
    /\ \E fn \in Disabled(snap.dir) :
          /\ Declared(snap.dir[fn]) # {}
          /\ \E p \in Declared(snap.dir[fn]) : ~Registered(p[1], p[2])
    /\ \E r \in RoleSet : handlers[r] # EmptyDict

(***************************************************************************)
(* C6 as stated: when two enabled descriptors declare the same             *)
(* (role, type_id), after load() the registry holds under that pair the    *)
(* handler built from the one that sorts last by file name.                *)
(***************************************************************************)
C6_LastDeclaringWins ==
    Loaded =>
        \A p \in RoleSet \X TypeIds :
            LET D == {fn \in Loadable(snap.dir) : p \in Declared(snap.dir[fn])}
            IN Cardinality(D) >= 2 =>
                  /\ Registered(p[1], p[2])
                  /\ handlers[p[1]][p[2]].path = LastOf(D)

(***************************************************************************)
(* C6 amended: after load() the registry holds under a (role, type_id) the *)
(* handler built from the descriptor that sorts last by file name among    *)
(* those that registered the pair; a descriptor that declares the pair but *)
(* fails before registering it leaves the earlier handler in place.        *)
(***************************************************************************)
C6_LastRegisteringWins ==
    Loaded =>
        \A p \in RoleSet \X TypeIds :
            LET R == {fn \in Loadable(snap.dir) : p \in RegisteredBy(snap.dir, fn)}
            IN IF R = {} THEN ~Registered(p[1], p[2])
               ELSE /\ Registered(p[1], p[2])
                    /\ handlers[p[1]][p[2]].path = LastOf(R)

\* two descriptors registered the same pair
C6_Witness ==
    /\ AfterLoad
    /\ \E p \in RoleSet \X TypeIds :
          /\ Cardinality({fn \in Loadable(snap.dir) : p \in RegisteredBy(snap.dir, fn)}) >= 2
          /\ Registered(p[1], p[2])

(***************************************************************************)
(* C7: in every state, every handler stored under (role, type_id) was      *)
(* built from the section type_id, holding the class field, of a           *)
(* descriptor that passed validation, is enabled and lists type_id under   *)
(* the property of that role.                                              *)
(***************************************************************************)
C7_HandlersFromValidatedTypedefs ==
    \A r \in RoleSet : \A t \in DOMAIN handlers[r] :
        LET h == handlers[r][t]
        IN /\ h.path \in DescriptorFiles(snap.dir)
           /\ LET c == snap.dir[h.path]
              IN /\ c.valid
                 /\ c.enabled
                 /\ <<r, t>> \in Declared(c)
                 /\ t \in DOMAIN c.sections
                 /\ "class" \in DOMAIN c.sections[t]
                 /\ h.cfg = c.sections[t]
                 /\ h.cls = Last(c.sections[t].class)

\* a handler in the table of a load that met an invalid descriptor and a
\* type section without the class field
C7_Witness ==
    /\ AfterLoad
    /\ \E r \in RoleSet : handlers[r] # EmptyDict
    /\ \E fn \in DescriptorFiles(snap.dir) : ~snap.dir[fn].valid
    /\ \E i \in 1..Len(errors) : errors[i].type = "ValidationError"

(***************************************************************************)
(* C8: reset() empties the handler table and the error log together: in no *)
(* state has the table been cleared by reset() while the error log still   *)
(* holds the entries it had before.                                        *)
(***************************************************************************)
C8_ClearedTogether ==
    (call \in {"reset", "load"} /\ pc = "reset_raised") =>
        ~(handlers = EmptyHandlers /\ errors = prevR /\ prevR # <<>>)

(***************************************************************************)
(* C9: after a load() the handler table and the error log are those of     *)
(* that load alone: they are what load() builds from the directory it      *)
(* listed, every handler was built by this load, and a directory without   *)
(* descriptors leaves both empty.                                          *)
(***************************************************************************)
C9_OnlyLastLoad ==
    (Loaded \/ (pc = "idle" /\ outcome = "raised")) =>
        LET g == Container_load(snap.root, snap.dir, loads)
        IN /\ handlers = g.handlers
           /\ errors = g.raised
           /\ \A r \in RoleSet : \A t \in DOMAIN handlers[r] : handlers[r][t].gen = loads
           /\ DescriptorFiles(snap.dir) = {} => handlers = EmptyHandlers /\ errors = <<>>

\* a reload of an empty directory after a load that left handlers and errors
C9_Witness ==
    /\ LoadEnd
    /\ loads >= 2
    /\ \E r \in RoleSet : prevH[r] # EmptyDict
    /\ prevR # <<>>
    /\ snap.dir = EmptyDict
    /\ handlers = EmptyHandlers
    /\ errors = <<>>

(***************************************************************************)
(* C10: load() raises exactly when the descriptor root cannot be listed    *)
(* (it cannot be created or os.listdir fails); a load that can list the    *)
(* root returns, whatever descriptors failed, and a failing descriptor     *)
(* never ends the loop of load().                                          *)
(***************************************************************************)
RootListable(rt) == rt \in {"ok", "missing"}

C10_Outcome ==
    (pc = "idle" /\ outcome \in {"returned", "raised"}) =>
        (outcome = "raised" <=> ~RootListable(snap.root))

C10_FailureGoesOn ==
    (pc = "pair" /\ raised' # raised) => (pc' = "next" /\ call' = "load" /\ todo' = todo)

\* C10: both parts, how load() ends and that a failing descriptor goes on
C10_OnlyListingFailurePropagates == []C10_Outcome /\ [][C10_FailureGoesOn]_vars

\* a load that returned although every descriptor failed, in several ways
C10_Witness ==
    /\ AfterLoad
    /\ \E fn \in DescriptorFiles(snap.dir) : ~snap.dir[fn].valid
    /\ Loadable(snap.dir) # {}
    /\ FailedPaths = Loadable(snap.dir)
    /\ Len(errors) >= 2

(***************************************************************************)
(* Readers                                                                 *)
(***************************************************************************)
\* ret is what a find() call returned
Found == ret # None /\ ret.op = "find"

\* C11: find() never fails, for any type_id and any role value, a role
\* that is none of SYSTEM, CONTENT and BIND and a registry never loaded
\* included: it returns the handler registered under the pair if there is
\* one and None otherwise, and leaves the handler table, the error list
\* and the log as they were.
C11_FindNeverFails ==
    [][(ret' # ret /\ ret' # None /\ ret'.op = "find") =>
         LET type_id == ret'.args[1]
             role == ret'.args[2]
         IN /\ ret'.exc = None
            /\ ret'.value = IF role \in RoleSet /\ type_id \in DOMAIN handlers[role]
                             THEN handlers[role][type_id]
                             ELSE None
            /\ handlers' = handlers
            /\ raised' = raised
            /\ logged' = logged]_vars

\* find() was given an unknown role on a registry never loaded, and returned None
C11_Witness ==
    /\ Found
    /\ loads = 0
    /\ ret.args[2] = NoRole
    /\ ret.exc = None
    /\ ret.value = None

\* a find(), all() or errors() call returns in this step
Reads == ret' # ret /\ ret' # None

\* C12: between two load() calls (and with no reset() in between), a find()
\* returns the very handler object the table holds, whatever find(), all()
\* and errors() calls came before it, and none of these calls changes the
\* table: so every find() for one pair returns the same object.
C12_SameInstance ==
    /\ []((pc = "idle" /\ Found) =>
            LET type_id == ret.args[1]
                role == ret.args[2]
            IN ret.value = IF role \in RoleSet /\ type_id \in DOMAIN handlers[role]
                           THEN handlers[role][type_id]
                           ELSE None)
    /\ [][Reads => handlers' = handlers]_vars

\* after a load(), find() returned a handler of the table
C12_Witness ==
    /\ pc = "idle"
    /\ outcome = "returned"
    /\ Found
    /\ ret.value # None
    /\ ret.value.gen = loads

\* seq lists every (type_id, handler) item of the dictionary d once, and
\* nothing else
IsItemsOf(seq, d) ==
    /\ Len(seq) = Cardinality(DOMAIN d)
    /\ \A k \in DOMAIN d : \E i \in 1..Len(seq) : seq[i] = <<k, d[k]>>

\* the part of the list v that all() built from the given role, the roles
\* taken in the order of ROLES
RECURSIVE Before(_)
Before(i) == IF i = 0 THEN 0 ELSE Before(i - 1) + Cardinality(DOMAIN handlers[ROLES[i]])

PartOf(v, i) == SubSeq(v, Before(i - 1) + 1, Before(i))

\* an all() call without roles returns in this step
AllReturns == Reads /\ ret'.op = "all" /\ ret'.args = <<>>

\* all() without roles returns one part per role, in the order SYSTEM,
\* CONTENT, BIND, each part holding every entry of its role once
WholeTable(v) ==
    /\ Len(v) = Before(Len(ROLES))
    /\ \A i \in 1..Len(ROLES) : IsItemsOf(PartOf(v, i), handlers[ROLES[i]])

\* each part lists its role's type ids in the order they were inserted
InInsertionOrder(v) ==
    \A i \in 1..Len(ROLES) :
        [j \in 1..Len(PartOf(v, i)) |-> PartOf(v, i)[j][1]] = order[ROLES[i]]

\* C13 as stated: in every registry state, all() without roles returns
\* the entries of all(SYSTEM), all(CONTENT) and all(BIND) together, each
\* once and none omitted, each role's entries in insertion order.
C13_AllInInsertionOrder ==
    [][AllReturns =>
         /\ ret'.exc = None
         /\ WholeTable(ret'.value.items)
         /\ InInsertionOrder(ret'.value.items)]_vars

\* C13 amended: in every registry state, all() without roles returns the
\* entries of SYSTEM, then of CONTENT, then of BIND, each entry once and
\* none omitted; within a role the entries come in the order the
\* dictionary yields them, which need not be the insertion order.
C13_AllIsWholeTable ==
    [][AllReturns =>
         /\ ret'.exc = None
         /\ WholeTable(ret'.value.items)
         /\ handlers' = handlers]_vars

\* all() returned the entries of two roles, two of them under one role
C13_Witness ==
    /\ ret # None
    /\ ret.op = "all"
    /\ ret.args = <<>>
    /\ ret.exc = None
    /\ Len(ret.value.items) = 3
    /\ Cardinality(DOMAIN handlers[SYSTEM]) = 1
    /\ Cardinality(DOMAIN handlers[CONTENT]) = 2
    /\ WholeTable(ret.value.items)
    /\ ~InInsertionOrder(ret.value.items)

(***************************************************************************)
(* Descriptor names                                                        *)
(***************************************************************************)
\* the (name, path) pairs the scan of the running load() yielded
Scanned == Descriptor__list(snap.dir)

\* C14: the names one Descriptor.list scan yields are unique: no two
\* selected descriptor files give the same name.
C14_NamesUnique ==
    (call = "load" /\ pc \in {"next", "pair"}) =>
        \A i, j \in 1..Len(Scanned) : Scanned[i][1] = Scanned[j][1] => i = j

(***************************************************************************)
(* The topic publish manager                                               *)
(***************************************************************************)
\* C15: publish() is best-effort: whatever the messaging server does while
\* the connection is opened or the message is sent, publish() returns
\* normally, and with an address configured it has either sent the message
\* or logged the error.
C15_PublishReturns ==
    (pret # None /\ pret.op = "publish") =>
        /\ pret.exc = None
        /\ address # "" => pret.sends + pret.logs = 1

\* publish() returned after a failed open and after a failed send
C15_Witness ==
    /\ pret # None
    /\ pret.op = "publish"
    /\ pret.exc = None
    /\ pret.sends = 0
    /\ \E i, j \in 1..Len(plog) : plog[i] = "could not connect" /\ plog[j] = "could not publish"

\* C16: every connection() call, one made after an open attempt failed
\* included, returns an open connection or None, never a connection whose
\* open() did not succeed.
C16_OpenOrNone ==
    (pret # None /\ pret.op = "connection" /\ pret.exc = None) =>
        (pret.value = None \/ created[pret.value.ref].opened)

\* the number of 'messaging is disabled' notices logged so far
RECURSIVE Notices(_)
Notices(l) == IF l = <<>> THEN 0 ELSE (IF Head(l) = "disabled" THEN 1 ELSE 0) + Notices(Tail(l))

\* C17: with no address configured, no publish() sends anything or makes a
\* connection, and over any number of publish() and connection() calls
\* the notice is logged once, by the first call.
C17_DisabledOnce ==
    address = "" =>
        /\ sent = <<>>
        /\ created = <<>>
        /\ cls_connection = None
        /\ Notices(plog) = (IF pcalls = 0 THEN 0 ELSE 1)
        /\ ((pret # None /\ pcalls > 1) => pret.logs = 0)

\* with no address configured, three calls were made and one notice logged
C17_Witness ==
    /\ address = ""
    /\ pcalls = MaxCalls
    /\ pret.op = "publish"
    /\ plog = <<"disabled">>
    /\ sent = <<>>

\* no Connection object before the first call, one at most after it, and
\* every message sent through it
LazyAndReused ==
    /\ (pcalls = 0 => created = <<>>)
    /\ Len(created) <= 1
    /\ (cls_connection # None => cls_connection = Ref(1))
    /\ \A i \in 1..Len(sent) : sent[i].via = Ref(1)

\* C18: the connection is made lazily and reused: no Connection object
\* exists before the first publish() or connection() call, at most one is
\* ever made, and every publish() uses that one.
C18_OneConnection ==
    /\ []LazyAndReused
    /\ [][cls_connection # None => cls_connection' = cls_connection]_vars

\* two messages went out through the one connection, and a third call was
\* made while the server was out of reach
C18_Witness ==
    /\ address # ""
    /\ pcalls = MaxCalls
    /\ Len(created) = 1
    /\ Len(sent) = 2
    /\ sent[1].via = sent[2].via
    /\ plog # <<>>

(***************************************************************************)
(* The module a handler class is taken from                                *)
(***************************************************************************)
\* no directory of PATH holds the source file of the descriptor file fn
NoSource(fn) == Container__find_module(split1(fn)[1]) = None

\* the (role, type_id) pairs of a descriptor file, in the order of __load
PairsOf(d, fn) == PairsFrom(Descriptor_types(DescriptorOf(d, fn)), SYSTEM)

\* every type of the descriptor file loads when its class reference is
\* imported on its own
LoadsPerType(d, fn) ==
    \A i \in 1..Len(PairsOf(d, fn)) :
        LoadPair(DescriptorOf(d, fn), None, PairsOf(d, fn)[i][2], 0).exc = None

\* C19: for a descriptor with no source file in PATH the import is resolved
\* per type: each type's class is looked up in the module its own class
\* reference names, so a descriptor all of whose types resolve on their own
\* does not fail, and each of its handlers comes from its own module.
C19_ImportPerType ==
    Loaded =>
        \A fn \in Loadable(snap.dir) :
            (NoSource(fn) /\ LoadsPerType(snap.dir, fn)) =>
                /\ fn \notin FailedPaths
                /\ \A role \in RoleSet : \A type_id \in DOMAIN handlers[role] :
                      handlers[role][type_id].path = fn =>
                          handlers[role][type_id].module =
                              rsplit1(snap.dir[fn].sections[type_id].class)[1]

\* the first directory of the search path that holds the file, if any
RECURSIVE FirstHaving(_, _)
FirstHaving(path, file_name) ==
    IF path = <<>> THEN None
    ELSE IF file_name \in DOMAIN PluginFiles[Head(path)] THEN [dir |-> Head(path)]
    ELSE FirstHaving(Tail(path), file_name)

\* the source file of a descriptor file: <name>.py
SourceOf(fn) == split1(fn)[1] \o <<46, 112, 121>>

\* the module the descriptor file's handlers are to come from
SourceModule(fn) == PluginFiles[FirstHaving(PATH, SourceOf(fn)).dir][SourceOf(fn)]

\* the source files loaded for a descriptor file during the running call
Loadings(fn) == SelectSeq(logged, LAMBDA l : l.at = "module" /\ l.path = fn)

\* C20: for a descriptor whose source file is in one or more directories
\* of PATH, the file of the first such directory is used, it is loaded
\* once per descriptor in a load(), and every type of the descriptor gets
\* its class from that module: the class reference is never imported.
C20_FirstSourceOnce ==
    \A fn \in Loadable(snap.dir) :
        ~NoSource(fn) =>
            /\ Loaded =>
                  /\ Len(Loadings(fn)) = 1
                  /\ Loadings(fn)[1].source = <<FirstHaving(PATH, SourceOf(fn)).dir, SourceOf(fn)>>
            /\ (pc = "pair" /\ cur.path = fn) => mod = SourceModule(fn)
            /\ \A role \in RoleSet : \A type_id \in DOMAIN handlers[role] :
                  (handlers[role][type_id].path = fn /\ handlers[role][type_id].gen = loads) =>
                      handlers[role][type_id].module = SourceModule(fn).origin

\* a descriptor with its source file in both directories of PATH
\* registered two types whose class references name two other modules
C20_Witness ==
    /\ Loaded
    /\ fn_b_conf \in Loadable(snap.dir)
    /\ Len(Loadings(fn_b_conf)) = 1
    /\ \A i \in 1..Len(PATH) : SourceOf(fn_b_conf) \in DOMAIN PluginFiles[PATH[i]]
    /\ Registered(SYSTEM, "x") /\ handlers[SYSTEM]["x"].path = fn_b_conf
    /\ Registered(CONTENT, "rpm") /\ handlers[CONTENT]["rpm"].path = fn_b_conf
    /\ handlers[SYSTEM]["x"].module = handlers[CONTENT]["rpm"].module
    /\ rsplit1(snap.dir[fn_b_conf].sections["x"].class)[1]
           # rsplit1(snap.dir[fn_b_conf].sections["rpm"].class)[1]

(***************************************************************************)
(* Typedef and Descriptor.types                                            *)
(***************************************************************************)
\* the descriptor's configuration has a section of that name
HasSection(cfg, section) == section \in {"main", "types"} \cup DOMAIN cfg.sections

\* that section has the class field
HasClass(cfg, section) == section \in DOMAIN cfg.sections /\ "class" \in DOMAIN cfg.sections[section]

\* Typedef(cfg, section) was called and has ended
TypedefEnded == pure_arg # None /\ pure_arg.op = "typedef" /\ pure_res # None

\* C21: Typedef(cfg, section) fails with SectionNotFound exactly when the
\* descriptor has no section of that name, with a validation error exactly
\* when the section is there and lacks the class field, and otherwise
\* succeeds with the configuration of that one section.
C21_TypedefOutcome ==
    TypedefEnded =>
        /\ (pure_res.exc # None /\ pure_res.exc.type = "SectionNotFound")
              <=> ~HasSection(pure_arg.cfg, pure_arg.section)
        /\ (pure_res.exc # None /\ pure_res.exc.type = "ValidationError")
              <=> (HasSection(pure_arg.cfg, pure_arg.section) /\ ~HasClass(pure_arg.cfg, pure_arg.section))
        /\ pure_res.exc = None <=> HasClass(pure_arg.cfg, pure_arg.section)
        /\ pure_res.exc = None => pure_res.cfg = pure_arg.cfg.sections[pure_arg.section]
        /\ pure_res.exc # None => pure_res.exc.arg = pure_arg.section

\* Typedef succeeded for one of the two type sections of a descriptor
C21_Witness ==
    /\ TypedefEnded
    /\ pure_arg.cfg = K_multi
    /\ pure_arg.section = "rpm"
    /\ pure_res.exc = None
    /\ pure_res.cfg = [class |-> <<"m1", "H1">>]
    /\ pure_res.cfg # K_multi.sections["x"]

\* where the items of a comma-separated value begin and end
ItemsOf(listed) == {ab \in (1..Len(listed)) \X (1..Len(listed)) : IsItem(listed, ab[1], ab[2])}

\* v holds the items of the value, each as often as the value lists it,
\* in the order of the value
IsItemsInOrder(v, listed) ==
    /\ Len(v) = Cardinality(ItemsOf(listed))
    /\ \A ab \in ItemsOf(listed) :
          LET k == Cardinality({cd \in ItemsOf(listed) : cd[1] < ab[1]}) + 1
          IN v[k] = SubSeq(listed, ab[1], ab[2])

\* descriptor.types() was called and has ended
TypesEnded == pure_arg # None /\ pure_arg.op = "types" /\ pure_res # None

\* C22: Descriptor.types() returns a mapping with a key for a role exactly
\* when the role's property (system, content, bind) is in the types
\* section; each value is the property's value split on commas, the
\* whitespace around every item trimmed, the empty items dropped and the
\* others kept in their order, duplicates included.
C22_TypesSplit ==
    TypesEnded =>
        LET section == pure_arg.section
            provided == pure_res.provided
        IN /\ DOMAIN provided \subseteq {SYSTEM, CONTENT, BIND}
           /\ SYSTEM \in DOMAIN provided <=> "system" \in DOMAIN section
           /\ CONTENT \in DOMAIN provided <=> "content" \in DOMAIN section
           /\ BIND \in DOMAIN provided <=> "bind" \in DOMAIN section
           /\ SYSTEM \in DOMAIN provided => IsItemsInOrder(provided[SYSTEM], section["system"])
           /\ CONTENT \in DOMAIN provided => IsItemsInOrder(provided[CONTENT], section["content"])
           /\ BIND \in DOMAIN provided => IsItemsInOrder(provided[BIND], section["bind"])

\* types() made two items of " y,x", dropped the empty item of "x," and
\* gave no key for the property that is not there
C22_Witness ==
    /\ TypesEnded
    /\ DOMAIN pure_arg.section = {"system", "content", "distributor"}
    /\ pure_arg.section["system"] = <<32, 121, 44, 120>>
    /\ pure_arg.section["content"] = <<120, 44>>
    /\ pure_res.provided = (SYSTEM :> <<s_y, s_x>> @@ CONTENT :> <<s_x>>)

(***************************************************************************)
(* A failing descriptor                                                    *)
(***************************************************************************)
\* the pairs of a descriptor file up to the one before its i-th, loaded
\* one after the other
PairsLoaded(d, fn, i) ==
    LoadPairs(EmptyHandlers, DescriptorOf(d, fn), Container__load_module(split1(fn)[1]),
              SubSeq(PairsOf(d, fn), 1, i), 0)

\* the position of the pair at which a failing descriptor file fails
FailsAt(d, fn) ==
    CHOOSE k \in 1..Len(PairsOf(d, fn)) :
        /\ PairsLoaded(d, fn, k).exc # None
        /\ PairsLoaded(d, fn, k - 1).exc = None

\* the entries the log of the running load() has for a descriptor file
FailuresOf(fn) == SelectSeq(logged, LAMBDA l : l.at = "load" /\ l.path = fn)

\* after load(): one entry for every failing descriptor, the pairs before
\* the failing one registered (by it or by a later descriptor), and none
\* of its handlers under another pair
PartialInTable ==
    Loaded =>
        /\ Len(errors) = Cardinality(FailedPaths)
        /\ \A fn \in FailedPaths :
              LET ps == PairsOf(snap.dir, fn)
                  k == FailsAt(snap.dir, fn)
              IN /\ Len(FailuresOf(fn)) = 1
                 /\ \A i \in 1..(k - 1) :
                       /\ Registered(ps[i][1], ps[i][2])
                       /\ SortsUpTo(fn, handlers[ps[i][1]][ps[i][2]].path)
                 /\ \A role \in RoleSet : \A type_id \in DOMAIN handlers[role] :
                       handlers[role][type_id].path = fn =>
                           \E i \in 1..(k - 1) : ps[i] = <<role, type_id>>

\* the step in which a descriptor fails: one entry more, the table as it
\* was, and no pair of the descriptor left to process
FailingStep ==
    (pc = "pair" /\ raised' # raised) =>
        /\ Len(raised') = Len(raised) + 1
        /\ handlers' = handlers
        /\ pairs' = <<>>
        /\ Len(logged') = Len(logged) + 1
        /\ logged'[Len(logged')].path = cur.path

\* C23: when an enabled descriptor fails at one of its pairs, load() adds
\* one entry to the error log for it, the handlers of its earlier pairs
\* stay registered and none of its later pairs is registered: a failing
\* descriptor may contribute a part of its handlers.
C23_PartialContribution == []PartialInTable /\ [][FailingStep]_vars

\* a descriptor registered its first type and failed at its second, whose
\* section is missing
C23_Witness ==
    /\ AfterLoad
    /\ fn_b_co \in FailedPaths
    /\ snap.dir[fn_b_co] = K_nosect
    /\ FailsAt(snap.dir, fn_b_co) = 2
    /\ Registered(CONTENT, "rpm")
    /\ handlers[CONTENT]["rpm"].path = fn_b_co
    /\ ~Registered(CONTENT, "y")
    /\ Len(errors) = 1

(***************************************************************************)
(* An aborted load                                                         *)
(***************************************************************************)
\* load() has raised: the root could not be listed
Aborted == pc = "idle" /\ outcome = "raised"

\* after an aborted load() the table has no entry under any role and the
\* error log is empty: find, all and errors return nothing
EmptyAfterAbort ==
    Aborted =>
        /\ \A role \in RoleSet : handlers[role] = EmptyDict
        /\ raised = <<>>
        /\ \A role \in RoleSet : \A type_id \in TypeIds : find(type_id, role).value = None
        /\ all(<<>>) = {[exc |-> None, value |-> <<>>]}
        /\ errors = <<>>

\* the step in which load() raises leaves nothing of the handlers and the
\* errors the container had when load() was called
AbortStep ==
    (pc = "list" /\ outcome' = "raised") =>
        /\ pc' = "idle"
        /\ ~RootListable(root)
        /\ \A role \in RoleSet : DOMAIN handlers'[role] = {}
        /\ raised' = <<>>

\* C24: a load() that aborts because the root cannot be listed leaves the
\* registry empty: no entry under any role and an empty error log, so the
\* handlers and errors of the load before it are returned no more.
C24_EmptyAfterAbort == []EmptyAfterAbort /\ [][AbortStep]_vars

\* a load() about to abort: the container held handlers and errors of the
\* load before when it was called, the root cannot be listed any more and
\* reset() has emptied the table and the log
C24_Witness ==
    /\ call = "load"
    /\ pc = "list"
    /\ loads = 2
    /\ ~RootListable(root)
    /\ \E role \in RoleSet : prevH[role] # EmptyDict
    /\ prevR # <<>>
    /\ handlers = EmptyHandlers
    /\ raised = <<>>

====
